---- MODULE Spec2Model ----
(***************************************************************************)
(* A model of the paste engine of pastemd (src/src/database.rs): the       *)
(* se_pastes and se_views tables, the key/value cache in front of them,    *)
(* and the request handlers of Database, each split at its await points.   *)
(*                                                                         *)
(* Strings are sequences of characters; a character is a one-token string  *)
(* ("a", "-", "LF" for a line feed, "U+00FC" for a non-ASCII letter).      *)
(* A paste's content is kept run-length encoded (a sequence of runs        *)
(* [ch, n]) so that a 200,000 byte content is a small value; the code only *)
(* ever measures its length and stores it.                                 *)
(*                                                                         *)
(* The database is available: a statement fails only when the statement    *)
(* the handler wrote for the configured kind of database (db_type) is one  *)
(* the database refuses.                                                   *)
(***************************************************************************)
EXTENDS Integers, Sequences, FiniteSets, TLC

(***************************************************************************)
(* Bounds of the model.                                                    *)
(***************************************************************************)
\* number of request handlers that may run concurrently
NumProcs == 2
\* rows the se_pastes table may hold
MaxRows == 2
\* rows the se_views table may hold
MaxViewRows == 2
\* largest value the cache's view counter is driven to
MaxViews == 2
\* rows the se_documents table may hold
MaxDocs == 2
\* the clock's last tick
MaxClock == 1
\* longest slug of the calls that exercise the normalization
MaxSlugLen == 3

(***************************************************************************)
(* Characters and strings.                                                 *)
(***************************************************************************)
\* the digits of punycode's base 36, also the lower-case letters and digits
Digits ==
  << "a", "b", "c", "d", "e", "f", "g", "h", "i", "j", "k", "l", "m",
     "n", "o", "p", "q", "r", "s", "t", "u", "v", "w", "x", "y", "z",
     "0", "1", "2", "3", "4", "5", "6", "7", "8", "9" >>

Min(S) == CHOOSE m \in S : \A n \in S : m <= n

\* the first position of character c in seq, 0 when it has none
IndexOf(seq, c) ==
  LET at == {i \in 1..Len(seq) : seq[i] = c} IN IF at = {} THEN 0 ELSE Min(at)

\* the characters of the model
Chars ==
  {Digits[i] : i \in 1..Len(Digits)}
    \cup {"A", "B", "C", "-", "_", ".", "!", "/", " ", "LF"}
    \cup {"U+00FC", "U+00DC", "U+1F600"}

\* the Unicode scalar value of each character
CodePoint ==
  [c \in Chars |->
     LET i == IndexOf(Digits, c) IN
     IF i \in 1..26 THEN 96 + i
     ELSE IF i \in 27..36 THEN 21 + i
     ELSE CASE c = "A" -> 65 [] c = "B" -> 66 [] c = "C" -> 67
            [] c = "-" -> 45 [] c = "_" -> 95 [] c = "." -> 46 [] c = "!" -> 33
            [] c = "/" -> 47 [] c = " " -> 32 [] c = "LF" -> 10
            [] c = "U+00FC" -> 252 [] c = "U+00DC" -> 220 [] c = "U+1F600" -> 128512]

\* char::to_lowercase on the characters of the model
LowerChar(c) ==
  CASE c = "A" -> "a" [] c = "B" -> "b" [] c = "C" -> "c"
    [] c = "U+00DC" -> "U+00FC"
    [] OTHER -> c

\* String::to_lowercase
to_lowercase(s) == [i \in 1..Len(s) |-> LowerChar(s[i])]

\* a string of n characters c
Rep(c, n) == [i \in 1..n |-> c]

\* Iterator::take(n).collect()
Take(s, n) == SubSeq(s, 1, IF Len(s) < n THEN Len(s) ELSE n)

(***************************************************************************)
(* idna::punycode::encode_str (RFC 3492): the basic (ASCII) characters in  *)
(* order, a "-" when there is any, then the non-basic ones as base-36      *)
(* variable-length integers.                                               *)
(***************************************************************************)
RECURSIVE adapt_loop(_, _)
adapt_loop(delta, k) ==
  IF delta > ((36 - 1) * 26) \div 2
  THEN adapt_loop(delta \div (36 - 1), k + 36)
  ELSE k + (((36 - 1 + 1) * delta) \div (delta + 38))

adapt(delta, num_points, first_time) ==
  LET d1 == IF first_time THEN delta \div 700 ELSE delta \div 2
      d2 == d1 + (d1 \div num_points)
  IN adapt_loop(d2, 0)

RECURSIVE encode_var_int(_, _, _)
encode_var_int(q, k, bias) ==
  LET t == IF k <= bias THEN 1 ELSE IF k >= bias + 26 THEN 26 ELSE k - bias
  IN IF q < t
     THEN <<Digits[q + 1]>>
     ELSE <<Digits[t + ((q - t) % (36 - t)) + 1]>>
            \o encode_var_int((q - t) \div (36 - t), k + 36, bias)

\* one pass over the input for code point n; st = [delta, bias, h, out]
RECURSIVE encode_pass(_, _, _, _, _)
encode_pass(input, i, n, b, st) ==
  IF i > Len(input) THEN st
  ELSE LET c == CodePoint[input[i]] IN
       IF c < n
       THEN encode_pass(input, i + 1, n, b, [st EXCEPT !.delta = @ + 1])
       ELSE IF c = n
       THEN encode_pass(input, i + 1, n, b,
              [delta |-> 0,
               bias |-> adapt(st.delta, st.h + 1, st.h = b),
               h |-> st.h + 1,
               out |-> st.out \o encode_var_int(st.delta, 36, st.bias)])
       ELSE encode_pass(input, i + 1, n, b, st)

RECURSIVE encode_main(_, _, _, _)
encode_main(input, n, b, st) ==
  IF st.h >= Len(input) THEN st.out
  ELSE LET m == Min({c \in {CodePoint[input[i]] : i \in 1..Len(input)} : c >= n})
           st1 == [st EXCEPT !.delta = @ + (m - n) * (st.h + 1)]
           st2 == encode_pass(input, 1, m, b, st1)
       IN encode_main(input, m + 1, b, [st2 EXCEPT !.delta = @ + 1])

punycode_encode_str(input) ==
  LET basic == SelectSeq(input, LAMBDA c : CodePoint[c] < 128)
      b == Len(basic)
      out0 == IF b > 0 THEN basic \o <<"-">> ELSE basic
  IN encode_main(input, 128, b, [delta |-> 0, bias |-> 72, h |-> b, out |-> out0])

\* a variant of strip_trailing_hyphen that strips nothing
strip_trailing_hyphen_keep(s) == s

\* if s.ends_with("-") { s.pop(); }
strip_trailing_hyphen(s) ==
  IF Len(s) > 0 /\ s[Len(s)] = "-" THEN SubSeq(s, 1, Len(s) - 1) ELSE s

\* the slug normalization every handler opens with
normalize_url(url) == strip_trailing_hyphen(to_lowercase(punycode_encode_str(url)))

\* the normalization edit_paste_by_url applies to new_url: no lower-casing
normalize_new_url(new_url) == strip_trailing_hyphen(punycode_encode_str(new_url))

(***************************************************************************)
(* Validation (create_paste).                                              *)
(***************************************************************************)
MaxUrlLen == 250
MinUrlLen == 3
MaxContentLen == 200000
MinContentLen == 1

\* String::len of a run-length encoded content
RECURSIVE content_len(_)
content_len(content) ==
  IF content = <<>> THEN 0 ELSE Head(content).n + content_len(Tail(content))

\* a content of n characters ch
Text(ch, n) == IF n = 0 THEN <<>> ELSE << [ch |-> ch, n |-> n] >>

url_len_ok(url) == ~((Len(url) > MaxUrlLen) \/ (Len(url) < MinUrlLen))

content_len_ok(content) ==
  ~((content_len(content) > MaxContentLen) \/ (content_len(content) < MinContentLen))

\* the character class [\w\_\-\.\!\p{Extended_Pictographic}]: letters, digits
\* and "_" (\w), "-", ".", "!" and the pictographic symbols
AllowedChars ==
  {c \in Chars : \/ c \in {Digits[i] : i \in 1..Len(Digits)}
                 \/ c \in {"A", "B", "C", "_", "U+00FC", "U+00DC"}
                 \/ c \in {"-", ".", "!"}
                 \/ c = "U+1F600"}

\* the lines of s, split at line feeds
RECURSIVE Lines(_)
Lines(s) ==
  LET i == IndexOf(s, "LF") IN
  IF i = 0 THEN <<s>> ELSE <<SubSeq(s, 1, i - 1)>> \o Lines(SubSeq(s, i + 1, Len(s)))

\* regex.captures(url) is Some: with multi_line, ^ and $ match at every line
\* boundary, so the pattern matches when some line is non-empty and made of
\* allowed characters only
url_regex_matches(url) ==
  \E k \in 1..Len(Lines(url)) :
    LET line == Lines(url)[k] IN
    /\ Len(line) >= 1
    /\ \A i \in 1..Len(line) : line[i] \in AllowedChars

(***************************************************************************)
(* Credentials and random identifiers (dorsal::utility).                   *)
(***************************************************************************)
\* utility::hash: a deterministic digest, modelled as an injective tagging
hash(plaintext) == <<"sha256">> \o plaintext

\* the values utility::random_id() may return
RandomIds ==
  { <<"0", "1", "2", "3", "4", "5", "6", "7", "8", "9", "a", "b">>,
    <<"f", "e", "d", "c", "b", "a", "9", "8", "7", "6", "5", "4">> }

\* random_id().chars().take(10).collect()
RandomLen == 10

(***************************************************************************)
(* Options, records and results.                                           *)
(***************************************************************************)
ViewModes == {"OpenMultiple", "AuthenticatedOnce"}

\* the kinds of database the handlers choose their statements by
DbTypes == {"sqlite", "postgres"}

None == <<>>
Some(v) == <<v>>
IsSome(o) == o # None
Unwrap(o) == o[1]

\* PasteMetadata::default()
DefaultMetadata == [owner |-> "", view_password |-> ""]

\* Result<T>: Ok(value) or Err(kind)
Ok(v) == [ok |-> TRUE, kind |-> "Ok", value |-> v]
Err(kind) == [ok |-> FALSE, kind |-> kind, value |-> None]

\* the cache keys format!("se_paste:{}", url) and format!("se_views:{}", url)
PasteKey(url) == <<"se_paste", url>>
ViewsKey(url) == <<"se_views", url>>

\* impl IntoResponse for PasteError: the status code of an error kind
into_response(kind) ==
  CASE kind = "PasswordIncorrect" -> 500
    [] kind = "AlreadyExists" -> 500
    [] kind = "NotFound" -> 404
    [] OTHER -> 500

(***************************************************************************)
(* The state.                                                              *)
(***************************************************************************)
VARIABLES
  db_type,     \* base.db._type
  view_mode,   \* options.view_mode
  document_store, \* options.document_store
  se_documents,   \* the se_documents table: its rows in insertion order
  se_pastes,   \* the se_pastes table: its rows in insertion order
  se_views,    \* the se_views table: rows [url, username]
  cachedb,     \* base.cachedb: a function from the keys present to values
  clock,       \* what utility::unix_epoch_timestamp() returns now
  pc,          \* per handler: the await point it is suspended at
  local,       \* per handler: the request and the local variables of its call
  ret          \* per handler: what its last call returned

vars ==
  <<db_type, view_mode, document_store, se_documents, se_pastes, se_views, cachedb,
    clock, pc, local, ret>>

Procs == 1..NumProcs

\* the request of a call, as the routing layer passes it
NoRequest ==
  [url |-> <<>>, password |-> <<>>, content |-> <<>>, new_url |-> <<>>,
   new_password |-> <<>>, user |-> None, metadata |-> DefaultMetadata,
   id |-> <<>>, namespace |-> <<>>]

\* a handler's locals before its first call: op is the handler called, req its
\* request, url the slug as normalized (and generated), password, new_password
\* and new_url the values the handler computes, paste the paste it read or built
NoLocals ==
  [op |-> "none", req |-> NoRequest, url |-> <<>>, password |-> <<>>,
   new_password |-> <<>>, new_url |-> <<>>, paste |-> None, count |-> 0,
   doc |-> None]

NoReturn == [ok |-> TRUE, kind |-> "none", value |-> None]

\* the status code of the response to the call handler p is back from: a
\* route answers Ok(Json(..)) with 200 and hands an Err(e) to into_response
response_status(p) == IF ret[p].ok THEN 200 ELSE into_response(ret[p].kind)

(***************************************************************************)
(* The cache (dorsal's cachedb) and the tables.                            *)
(***************************************************************************)
\* cachedb.get(key)
cache_get(cache, key) == IF key \in DOMAIN cache THEN Some(cache[key]) ELSE None

\* cachedb.set(key, value)
cache_set(cache, key, value) ==
  [k \in (DOMAIN cache) \cup {key} |-> IF k = key THEN value ELSE cache[k]]

\* cachedb.remove(key)
cache_remove(cache, key) == [k \in (DOMAIN cache) \ {key} |-> cache[k]]

\* cachedb.incr(key): the counter after INCR (a missing key counts from 0)
cache_incr(cache, key) ==
  cache_set(cache, key, IF key \in DOMAIN cache THEN cache[key] + 1 ELSE 1)

\* cachedb.incr(key)'s return value: whether the key existed before
cache_incr_returns(cache, key) == key \in DOMAIN cache

\* the handlers run their "?" statements on sqlite and mysql and their "$n"
\* statements elsewhere; the "$n" INSERTs read VALEUS, the "$n" UPDATEs
\* parenthesize their SET list and the "$n" SELECT of a view row mixes in a "?":
\* the database refuses these, and the call of execute or fetch_one is an Err
runs_dollar_statements(t) == ~((t = "sqlite") \/ (t = "mysql"))

\* SELECT * FROM se_pastes WHERE url = ? (fetch_one: the first row, or Err)
select_paste(rows, url) ==
  LET hits == SelectSeq(rows, LAMBDA r : r.url = url) IN
  IF hits = <<>> THEN None ELSE Some(Head(hits))

\* DELETE FROM se_pastes WHERE url = ?
delete_pastes(rows, url) == SelectSeq(rows, LAMBDA r : r.url # url)

\* UPDATE se_pastes SET content, password, url, date_edited WHERE url = ?
update_pastes(rows, url, new_content, new_password, new_url, now) ==
  [i \in 1..Len(rows) |->
     IF rows[i].url = url
     THEN [rows[i] EXCEPT !.content = new_content, !.password = new_password,
                          !.url = new_url, !.date_edited = now]
     ELSE rows[i]]

\* UPDATE se_pastes SET metadata = ? WHERE url = ?
update_metadata(rows, url, metadata) ==
  [i \in 1..Len(rows) |->
     IF rows[i].url = url THEN [rows[i] EXCEPT !.metadata = metadata] ELSE rows[i]]

\* SELECT * FROM se_views WHERE url = ? (fetch_all, then len)
count_views(rows, url) == Len(SelectSeq(rows, LAMBDA r : r.url = url))

\* SELECT * FROM se_views WHERE url = ? AND username = ? (fetch_one is Ok)
has_view(rows, url, username) ==
  \E i \in 1..Len(rows) : rows[i].url = url /\ rows[i].username = username

\* DELETE FROM se_views WHERE url = ?
delete_views(rows, url) == SelectSeq(rows, LAMBDA r : r.url # url)

(***************************************************************************)
(* Steps common to the handlers.                                           *)
(***************************************************************************)
\* a handler returns result res to its caller; l is its locals at that point
Return(p, res, l) ==
  /\ pc' = [pc EXCEPT ![p] = "idle"]
  /\ local' = [local EXCEPT ![p] = l]
  /\ ret' = [ret EXCEPT ![p] = res]

\* a handler moves to await point label with locals l
Goto(p, label, l) ==
  /\ pc' = [pc EXCEPT ![p] = label]
  /\ local' = [local EXCEPT ![p] = l]
  /\ ret' = ret

\* a call starts: the handler is idle, and its last result is dropped
Call(p, label, l) ==
  /\ pc[p] = "idle"
  /\ pc' = [pc EXCEPT ![p] = label]
  /\ local' = [local EXCEPT ![p] = l]
  /\ ret' = [ret EXCEPT ![p] = NoReturn]

(***************************************************************************)
(* What a handler does when its get_paste_by_url(url) call returns res:    *)
(* the code from there to its next await point. cache is the cache as the  *)
(* call left it.                                                           *)
(***************************************************************************)
\* get_paste_by_url called by the routing layer: the result is the response
read_resume(p, res, cache) ==
  /\ Return(p, res, local[p])
  /\ cachedb' = cache
  /\ UNCHANGED <<se_pastes, se_views>>

\* a variant of create_resume that validates the content before it looks at
\* the existence check
create_resume_validate_first(p, res, cache) ==
  /\ cachedb' = cache
  /\ UNCHANGED <<se_pastes, se_views>>
  /\ IF ~content_len_ok(local[p].req.content)
     THEN Return(p, Err("ValueError"), local[p])
     ELSE IF res.ok
     THEN Return(p, Err("AlreadyExists"), local[p])
     ELSE \E rurl \in RandomIds, rpw \in RandomIds, rid \in RandomIds :
            LET l == local[p]
                url == IF l.url = <<>> THEN Take(rurl, RandomLen) ELSE l.url
                password == IF l.req.password = <<>> THEN Take(rpw, RandomLen)
                            ELSE l.req.password
                paste == [id |-> rid, url |-> url, content |-> l.req.content,
                          password |-> hash(password),
                          date_published |-> clock, date_edited |-> clock,
                          metadata |-> DefaultMetadata]
                l1 == [l EXCEPT !.url = url, !.password = password]
            IN IF ~url_len_ok(url) THEN Return(p, Err("ValueError"), l1)
               ELSE IF ~url_regex_matches(url) THEN Return(p, Err("ValueError"), l1)
               ELSE Goto(p, "create_insert", [l1 EXCEPT !.paste = Some(paste)])

\* a variant of create_resume that stores the hash of the password as supplied,
\* also when it returns a generated one
create_resume_hash_supplied(p, res, cache) ==
  /\ cachedb' = cache
  /\ UNCHANGED <<se_pastes, se_views>>
  /\ IF res.ok
     THEN Return(p, Err("AlreadyExists"), local[p])
     ELSE \E rurl \in RandomIds, rpw \in RandomIds, rid \in RandomIds :
            LET l == local[p]
                url == IF l.url = <<>> THEN Take(rurl, RandomLen) ELSE l.url
                password == IF l.req.password = <<>> THEN Take(rpw, RandomLen)
                            ELSE l.req.password
                paste == [id |-> rid, url |-> url, content |-> l.req.content,
                          password |-> hash(l.req.password),
                          date_published |-> clock, date_edited |-> clock,
                          metadata |-> DefaultMetadata]
                l1 == [l EXCEPT !.url = url, !.password = password]
            IN IF ~url_len_ok(url) THEN Return(p, Err("ValueError"), l1)
               ELSE IF ~content_len_ok(l.req.content) THEN Return(p, Err("ValueError"), l1)
               ELSE IF ~url_regex_matches(url) THEN Return(p, Err("ValueError"), l1)
               ELSE Goto(p, "create_insert", [l1 EXCEPT !.paste = Some(paste)])

\* create_paste, from the existence check to the INSERT
create_resume(p, res, cache) ==
  /\ cachedb' = cache
  /\ UNCHANGED <<se_pastes, se_views>>
  /\ IF res.ok
     THEN Return(p, Err("AlreadyExists"), local[p])
     ELSE \E rurl \in RandomIds, rpw \in RandomIds, rid \in RandomIds :
            LET l == local[p]
                url == IF l.url = <<>> THEN Take(rurl, RandomLen) ELSE l.url
                password == IF l.req.password = <<>> THEN Take(rpw, RandomLen)
                            ELSE l.req.password
                paste == [id |-> rid, url |-> url, content |-> l.req.content,
                          password |-> hash(password),
                          date_published |-> clock, date_edited |-> clock,
                          metadata |-> DefaultMetadata]
                l1 == [l EXCEPT !.url = url, !.password = password]
            IN IF ~url_len_ok(url) THEN Return(p, Err("ValueError"), l1)
               ELSE IF ~content_len_ok(l.req.content) THEN Return(p, Err("ValueError"), l1)
               ELSE IF ~url_regex_matches(url) THEN Return(p, Err("ValueError"), l1)
               ELSE Goto(p, "create_insert", [l1 EXCEPT !.paste = Some(paste)])

\* a variant of delete_resume that drops the view counter before it checks
\* the password
delete_resume_remove_first(p, res, cache) ==
  /\ UNCHANGED <<se_pastes, se_views>>
  /\ IF ~res.ok THEN cachedb' = cache /\ Return(p, res, local[p])
     ELSE LET l == [local[p] EXCEPT !.paste = Some(res.value)] IN
          /\ cachedb' = cache_remove(cache, ViewsKey(l.url))
          /\ IF hash(l.req.password) # res.value.password
             THEN Return(p, Err("PasswordIncorrect"), l)
             ELSE Goto(p, "delete_views_key", l)

\* delete_paste_by_url, from the read to the first removal
delete_resume(p, res, cache) ==
  /\ cachedb' = cache
  /\ UNCHANGED <<se_pastes, se_views>>
  /\ IF ~res.ok THEN Return(p, res, local[p])
     ELSE LET l == [local[p] EXCEPT !.paste = Some(res.value)] IN
          IF hash(l.req.password) # res.value.password
          THEN Return(p, Err("PasswordIncorrect"), l)
          ELSE Goto(p, "delete_views_key", l)

\* a variant of skip_password_check that knows owners only
skip_password_check_owner_only(editing_as, existing) ==
  /\ IsSome(editing_as)
  /\ Unwrap(editing_as).username = existing.metadata.owner

\* whether editing_as lets the call skip the password check
skip_password_check(editing_as, existing) ==
  /\ IsSome(editing_as)
  /\ \/ Unwrap(editing_as).username = existing.metadata.owner
     \/ "ManagePastes" \in Unwrap(editing_as).permissions

\* the password gate of edit_paste_by_url and edit_paste_metadata_by_url
password_gate(editing_as, password, existing) ==
  IF skip_password_check(editing_as, existing) = FALSE
  THEN hash(password) = existing.password
  ELSE TRUE

\* a variant of edit_resume that writes the new content before it refuses the
\* password
edit_resume_update_first(p, res, cache) ==
  /\ cachedb' = cache
  /\ se_views' = se_views
  /\ IF ~res.ok THEN se_pastes' = se_pastes /\ Return(p, res, local[p])
     ELSE LET existing == res.value
              l == [local[p] EXCEPT !.paste = Some(existing)]
              new_password == IF l.req.new_password # <<>>
                              THEN hash(l.req.new_password)
                              ELSE existing.password
              new_url == normalize_new_url(IF l.req.new_url = <<>> THEN existing.url
                                           ELSE l.req.new_url)
          IN IF ~password_gate(l.req.user, l.req.password, existing)
             THEN /\ se_pastes' = update_pastes(se_pastes, l.url, l.req.content,
                                                new_password, new_url, clock)
                  /\ Return(p, Err("PasswordIncorrect"), l)
             ELSE /\ se_pastes' = se_pastes
                  /\ Goto(p, "edit_update",
                          [l EXCEPT !.new_password = new_password, !.new_url = new_url])

\* a variant of edit_resume that keeps the new password as it came
edit_resume_plain_password(p, res, cache) ==
  /\ cachedb' = cache
  /\ UNCHANGED <<se_pastes, se_views>>
  /\ IF ~res.ok THEN Return(p, res, local[p])
     ELSE LET existing == res.value
              l == [local[p] EXCEPT !.paste = Some(existing)]
              new_password == IF l.req.new_password # <<>>
                              THEN l.req.new_password
                              ELSE existing.password
              new_url == normalize_new_url(IF l.req.new_url = <<>> THEN existing.url
                                           ELSE l.req.new_url)
          IN IF ~password_gate(l.req.user, l.req.password, existing)
             THEN Return(p, Err("PasswordIncorrect"), l)
             ELSE Goto(p, "edit_update",
                       [l EXCEPT !.new_password = new_password, !.new_url = new_url])

\* edit_paste_by_url, from the read to the UPDATE
edit_resume(p, res, cache) ==
  /\ cachedb' = cache
  /\ UNCHANGED <<se_pastes, se_views>>
  /\ IF ~res.ok THEN Return(p, res, local[p])
     ELSE LET existing == res.value
              l == [local[p] EXCEPT !.paste = Some(existing)]
              new_password == IF l.req.new_password # <<>>
                              THEN hash(l.req.new_password)
                              ELSE existing.password
              new_url == normalize_new_url(IF l.req.new_url = <<>> THEN existing.url
                                           ELSE l.req.new_url)
          IN IF ~password_gate(l.req.user, l.req.password, existing)
             THEN Return(p, Err("PasswordIncorrect"), l)
             ELSE Goto(p, "edit_update",
                       [l EXCEPT !.new_password = new_password, !.new_url = new_url])

\* edit_paste_metadata_by_url, from the read to the UPDATE
metadata_resume(p, res, cache) ==
  /\ cachedb' = cache
  /\ UNCHANGED <<se_pastes, se_views>>
  /\ IF ~res.ok THEN Return(p, res, local[p])
     ELSE LET l == [local[p] EXCEPT !.paste = Some(res.value)] IN
          IF ~password_gate(l.req.user, l.req.password, res.value)
          THEN Return(p, Err("PasswordIncorrect"), l)
          ELSE Goto(p, "metadata_update", l)

Resume(p, res, cache) ==
  CASE local[p].op = "read" -> read_resume(p, res, cache)
    [] local[p].op = "create" -> create_resume(p, res, cache)
    [] local[p].op = "delete" -> delete_resume(p, res, cache)
    [] local[p].op = "edit" -> edit_resume(p, res, cache)
    [] local[p].op = "metadata" -> metadata_resume(p, res, cache)

(***************************************************************************)
(* get_paste_by_url: the cache, then the store, then the cache again.      *)
(***************************************************************************)
\* cachedb.get("se_paste:url"): a hit is the result
get_cache(p) ==
  /\ pc[p] = "get_cache"
  /\ LET hit == cache_get(cachedb, PasteKey(local[p].url)) IN
     IF IsSome(hit)
     THEN Resume(p, Ok(Unwrap(hit)), cachedb)
     ELSE /\ Goto(p, "get_store", local[p])
          /\ UNCHANGED <<se_pastes, se_views, cachedb>>
  /\ UNCHANGED <<db_type, view_mode, document_store, se_documents, clock>>

\* SELECT ... WHERE url = ?: no row is NotFound
get_store(p) ==
  /\ pc[p] = "get_store"
  /\ LET row == select_paste(se_pastes, to_lowercase(local[p].url)) IN
     IF IsSome(row)
     THEN /\ Goto(p, "get_set", [local[p] EXCEPT !.paste = row])
          /\ UNCHANGED <<se_pastes, se_views, cachedb>>
     ELSE Resume(p, Err("NotFound"), cachedb)
  /\ UNCHANGED <<db_type, view_mode, document_store, se_documents, clock>>

\* cachedb.set("se_paste:url", paste), and the paste is the result
get_set(p) ==
  /\ pc[p] = "get_set"
  /\ LET paste == Unwrap(local[p].paste) IN
     Resume(p, Ok(paste), cache_set(cachedb, PasteKey(local[p].url), paste))
  /\ UNCHANGED <<db_type, view_mode, document_store, se_documents, clock>>

\* what get_paste_by_url(url) returns when it runs with no other handler
\* between its steps: the cached paste, else the first row, else NotFound
read_result(url) ==
  LET hit == cache_get(cachedb, PasteKey(url))
      row == select_paste(se_pastes, to_lowercase(url))
  IN IF IsSome(hit) THEN Ok(Unwrap(hit))
     ELSE IF IsSome(row) THEN Ok(Unwrap(row))
     ELSE Err("NotFound")

(***************************************************************************)
(* The handlers: a call, then one step per await point.                    *)
(***************************************************************************)
\* the calls of handler op in flight
InFlight(op) == {q \in Procs : pc[q] # "idle" /\ local[q].op = op}

\* get_paste_by_url(url), called by the routing layer
get_paste_by_url(p, url) ==
  /\ Call(p, "get_cache",
          [NoLocals EXCEPT !.op = "read", !.req.url = url, !.url = normalize_url(url)])
  /\ UNCHANGED <<db_type, view_mode, document_store, se_documents, se_pastes, se_views, cachedb, clock>>

\* create_paste(props); the table has room for the row, or the slug is taken
create_paste(p, props) ==
  LET url == normalize_url(props.url) IN
  /\ \/ Len(se_pastes) + Cardinality(InFlight("create")) < MaxRows
     \/ IsSome(select_paste(se_pastes, url))
  /\ Call(p, "get_cache",
          [NoLocals EXCEPT !.op = "create", !.req.url = props.url,
                           !.req.content = props.content,
                           !.req.password = props.password,
                           !.url = url])
  /\ UNCHANGED <<db_type, view_mode, document_store, se_documents, se_pastes, se_views, cachedb, clock>>

\* INSERT INTO se_pastes, and the plaintext password and the paste are returned
create_insert(p) ==
  /\ pc[p] = "create_insert"
  /\ IF runs_dollar_statements(db_type)
     THEN /\ se_pastes' = se_pastes
          /\ Return(p, Err("Other"), local[p])
     ELSE /\ se_pastes' = Append(se_pastes, Unwrap(local[p].paste))
          /\ Return(p, Ok([password |-> local[p].password,
                           paste |-> Unwrap(local[p].paste)]), local[p])
  /\ UNCHANGED <<db_type, view_mode, document_store, se_documents, se_views, cachedb, clock>>

\* delete_paste_by_url(url, password)
delete_paste_by_url(p, url, password) ==
  /\ Call(p, "get_cache",
          [NoLocals EXCEPT !.op = "delete", !.req.url = url, !.req.password = password,
                           !.url = normalize_url(url)])
  /\ UNCHANGED <<db_type, view_mode, document_store, se_documents, se_pastes, se_views, cachedb, clock>>

\* cachedb.remove("se_views:url")
delete_views_key(p) ==
  /\ pc[p] = "delete_views_key"
  /\ cachedb' = cache_remove(cachedb, ViewsKey(local[p].url))
  /\ Goto(p, "delete_row", local[p])
  /\ UNCHANGED <<db_type, view_mode, document_store, se_documents, se_pastes, se_views, clock>>

\* DELETE FROM se_pastes WHERE url = ?
delete_row(p) ==
  /\ pc[p] = "delete_row"
  /\ se_pastes' = delete_pastes(se_pastes, local[p].url)
  /\ Goto(p, "delete_cache_key", local[p])
  /\ UNCHANGED <<db_type, view_mode, document_store, se_documents, se_views, cachedb, clock>>

\* a variant of delete_cache_key that leaves the cached paste in place
delete_cache_key_keep(p) ==
  /\ pc[p] = "delete_cache_key"
  /\ cachedb' = cachedb
  /\ IF view_mode = "AuthenticatedOnce"
     THEN Goto(p, "delete_view_logs", local[p])
     ELSE Return(p, Ok(None), local[p])
  /\ UNCHANGED <<db_type, view_mode, document_store, se_documents, se_pastes, se_views, clock>>

\* cachedb.remove("se_paste:url"); in OpenMultiple mode the call is done
delete_cache_key(p) ==
  /\ pc[p] = "delete_cache_key"
  /\ cachedb' = cache_remove(cachedb, PasteKey(local[p].url))
  /\ IF view_mode = "AuthenticatedOnce"
     THEN Goto(p, "delete_view_logs", local[p])
     ELSE Return(p, Ok(None), local[p])
  /\ UNCHANGED <<db_type, view_mode, document_store, se_documents, se_pastes, se_views, clock>>

\* DELETE FROM se_views WHERE url = ?
delete_view_logs(p) ==
  /\ pc[p] = "delete_view_logs"
  /\ se_views' = delete_views(se_views, local[p].url)
  /\ Return(p, Ok(None), local[p])
  /\ UNCHANGED <<db_type, view_mode, document_store, se_documents, se_pastes, cachedb, clock>>

\* edit_paste_by_url(url, password, new_content, new_url, new_password, editing_as)
edit_paste_by_url(p, url, password, new_content, new_url, new_password, editing_as) ==
  /\ Call(p, "get_cache",
          [NoLocals EXCEPT !.op = "edit", !.req.url = url, !.req.password = password,
                           !.req.content = new_content, !.req.new_url = new_url,
                           !.req.new_password = new_password, !.req.user = editing_as,
                           !.url = normalize_url(url)])
  /\ UNCHANGED <<db_type, view_mode, document_store, se_documents, se_pastes, se_views, cachedb, clock>>

\* UPDATE se_pastes SET content, password, url, date_edited WHERE url = ?
edit_update(p) ==
  /\ pc[p] = "edit_update"
  /\ IF runs_dollar_statements(db_type)
     THEN /\ se_pastes' = se_pastes
          /\ Return(p, Err("Other"), local[p])
     ELSE /\ se_pastes' = update_pastes(se_pastes, local[p].url, local[p].req.content,
                                        local[p].new_password, local[p].new_url, clock)
          /\ Goto(p, "edit_cache_key", local[p])
  /\ UNCHANGED <<db_type, view_mode, document_store, se_documents, se_views, cachedb, clock>>

\* a variant of edit_cache_key that leaves the cached paste in place
edit_cache_key_keep(p) ==
  /\ pc[p] = "edit_cache_key"
  /\ cachedb' = cachedb
  /\ Return(p, Ok(None), local[p])
  /\ UNCHANGED <<db_type, view_mode, document_store, se_documents, se_pastes, se_views, clock>>

\* cachedb.remove("se_paste:url") with the url the call was addressed by
edit_cache_key(p) ==
  /\ pc[p] = "edit_cache_key"
  /\ cachedb' = cache_remove(cachedb, PasteKey(local[p].url))
  /\ Return(p, Ok(None), local[p])
  /\ UNCHANGED <<db_type, view_mode, document_store, se_documents, se_pastes, se_views, clock>>

\* edit_paste_metadata_by_url(url, password, metadata, editing_as)
edit_paste_metadata_by_url(p, url, password, metadata, editing_as) ==
  /\ Call(p, "get_cache",
          [NoLocals EXCEPT !.op = "metadata", !.req.url = url,
                           !.req.password = password, !.req.metadata = metadata,
                           !.req.user = editing_as, !.url = normalize_url(url)])
  /\ UNCHANGED <<db_type, view_mode, document_store, se_documents, se_pastes, se_views, cachedb, clock>>

\* UPDATE se_pastes SET metadata = ? WHERE url = ?
metadata_update(p) ==
  /\ pc[p] = "metadata_update"
  /\ IF runs_dollar_statements(db_type)
     THEN /\ se_pastes' = se_pastes
          /\ Return(p, Err("Other"), local[p])
     ELSE /\ se_pastes' = update_metadata(se_pastes, local[p].url, local[p].req.metadata)
          /\ Goto(p, "metadata_cache_key", local[p])
  /\ UNCHANGED <<db_type, view_mode, document_store, se_documents, se_views, cachedb, clock>>

\* cachedb.remove("se_paste:url")
metadata_cache_key(p) ==
  /\ pc[p] = "metadata_cache_key"
  /\ cachedb' = cache_remove(cachedb, PasteKey(local[p].url))
  /\ Return(p, Ok(None), local[p])
  /\ UNCHANGED <<db_type, view_mode, document_store, se_documents, se_pastes, se_views, clock>>

(***************************************************************************)
(* The view counter.                                                       *)
(***************************************************************************)
\* get_views_by_url(url)
get_views_by_url(p, url) ==
  /\ Call(p, "views_cache",
          [NoLocals EXCEPT !.op = "get_views", !.req.url = url,
                           !.url = normalize_url(url)])
  /\ UNCHANGED <<db_type, view_mode, document_store, se_documents, se_pastes, se_views, cachedb, clock>>

\* cachedb.get("se_views:url"): a hit is the count; a miss is 0 in OpenMultiple
views_cache(p) ==
  /\ pc[p] = "views_cache"
  /\ LET hit == cache_get(cachedb, ViewsKey(local[p].url)) IN
     IF IsSome(hit) THEN Return(p, Ok(Unwrap(hit)), local[p])
     ELSE IF view_mode = "AuthenticatedOnce" THEN Goto(p, "views_count", local[p])
     ELSE Return(p, Ok(0), local[p])
  /\ UNCHANGED <<db_type, view_mode, document_store, se_documents, se_pastes, se_views, cachedb, clock>>

\* SELECT * FROM se_views WHERE url = ?, counted
views_count(p) ==
  /\ pc[p] = "views_count"
  /\ Goto(p, "views_set", [local[p] EXCEPT !.count = count_views(se_views, local[p].url)])
  /\ UNCHANGED <<db_type, view_mode, document_store, se_documents, se_pastes, se_views, cachedb, clock>>

\* cachedb.set("se_views:url", views), and views is returned
views_set(p) ==
  /\ pc[p] = "views_set"
  /\ cachedb' = cache_set(cachedb, ViewsKey(local[p].url), local[p].count)
  /\ Return(p, Ok(local[p].count), local[p])
  /\ UNCHANGED <<db_type, view_mode, document_store, se_documents, se_pastes, se_views, clock>>

\* what get_views_by_url(url) returns when it runs alone
views_result(url) ==
  LET hit == cache_get(cachedb, ViewsKey(url)) IN
  IF IsSome(hit) THEN Unwrap(hit)
  ELSE IF view_mode = "AuthenticatedOnce" THEN count_views(se_views, url)
  ELSE 0

\* the views of url counted so far, and those being counted
views_load(url) ==
  LET cached == cache_get(cachedb, ViewsKey(url))
      counted == IF IsSome(cached) THEN Unwrap(cached) ELSE 0
  IN (IF counted > Len(se_views) THEN counted ELSE Len(se_views))
       + Cardinality(InFlight("incr_views"))

\* a variant of incr_views_by_url that drops a view without a user in both modes
incr_views_by_url_needs_user(p, url, as_user) ==
  /\ views_load(normalize_url(url)) < MaxViews
  /\ Len(se_views) + Cardinality(InFlight("incr_views")) < MaxViewRows
  /\ LET l == [NoLocals EXCEPT !.op = "incr_views", !.req.url = url,
                               !.req.user = as_user, !.url = normalize_url(url)]
     IN IF IsSome(as_user)
        THEN IF view_mode = "AuthenticatedOnce"
             THEN Call(p, "incr_has_viewed", l)
             ELSE Call(p, "incr_cache", l)
        ELSE /\ pc[p] = "idle"
             /\ Return(p, Ok(None), l)
  /\ UNCHANGED <<db_type, view_mode, document_store, se_documents, se_pastes, se_views, cachedb, clock>>

\* a variant of incr_views_by_url that counts a view without a user in the
\* cache in AuthenticatedOnce mode too
incr_views_by_url_counts_anonymous(p, url, as_user) ==
  /\ views_load(normalize_url(url)) < MaxViews
  /\ Len(se_views) + Cardinality(InFlight("incr_views")) < MaxViewRows
  /\ LET l == [NoLocals EXCEPT !.op = "incr_views", !.req.url = url,
                               !.req.user = as_user, !.url = normalize_url(url)]
     IN IF view_mode = "AuthenticatedOnce" /\ IsSome(as_user)
        THEN Call(p, "incr_has_viewed", l)
        ELSE Call(p, "incr_cache", l)
  /\ UNCHANGED <<db_type, view_mode, document_store, se_documents, se_pastes, se_views, cachedb, clock>>

\* incr_views_by_url(url, as_user): without a user AuthenticatedOnce counts nothing
incr_views_by_url(p, url, as_user) ==
  /\ views_load(normalize_url(url)) < MaxViews
  /\ Len(se_views) + Cardinality(InFlight("incr_views")) < MaxViewRows
  /\ LET l == [NoLocals EXCEPT !.op = "incr_views", !.req.url = url,
                               !.req.user = as_user, !.url = normalize_url(url)]
     IN IF view_mode = "AuthenticatedOnce"
        THEN IF IsSome(as_user)
             THEN Call(p, "incr_has_viewed", l)
             ELSE /\ pc[p] = "idle"
                  /\ Return(p, Ok(None), l)
        ELSE Call(p, "incr_cache", l)
  /\ UNCHANGED <<db_type, view_mode, document_store, se_documents, se_pastes, se_views, cachedb, clock>>

\* user_has_viewed_paste(url, username): a user counts once
incr_has_viewed(p) ==
  /\ pc[p] = "incr_has_viewed"
  /\ IF /\ ~runs_dollar_statements(db_type)
        /\ has_view(se_views, local[p].url, Unwrap(local[p].req.user).username)
     THEN Return(p, Ok(None), local[p])
     ELSE Goto(p, "incr_insert", local[p])
  /\ UNCHANGED <<db_type, view_mode, document_store, se_documents, se_pastes, se_views, cachedb, clock>>

\* INSERT INTO se_views VALUES (url, username)
incr_insert(p) ==
  /\ pc[p] = "incr_insert"
  /\ IF runs_dollar_statements(db_type)
     THEN /\ se_views' = se_views
          /\ Return(p, Err("Other"), local[p])
     ELSE /\ se_views' = Append(se_views, [url |-> local[p].url,
                                           username |-> Unwrap(local[p].req.user).username])
          /\ Goto(p, "incr_cache", local[p])
  /\ UNCHANGED <<db_type, view_mode, document_store, se_documents, se_pastes, cachedb, clock>>

\* cachedb.incr("se_views:url"): false is Ok, true is Err(Other)
incr_cache(p) ==
  /\ pc[p] = "incr_cache"
  /\ cachedb' = cache_incr(cachedb, ViewsKey(local[p].url))
  /\ IF cache_incr_returns(cachedb, ViewsKey(local[p].url)) = FALSE
     THEN Return(p, Ok(None), local[p])
     ELSE Return(p, Err("Other"), local[p])
  /\ UNCHANGED <<db_type, view_mode, document_store, se_documents, se_pastes, se_views, clock>>

(***************************************************************************)
(* Documents: pull, push, drop and update, each split at its await points. *)
(* A row of se_documents has the columns of the CREATE TABLE statement:    *)
(* id, namespace, content, timestamp, metadata.                            *)
(***************************************************************************)
\* the cache key pull reads: format!("se_document:{}", id)
DocumentIdKey(id) == <<"se_document", id>>

\* the cache key pull, drop and update write and remove:
\* format!("se_document:{}:{}", namespace, id)
DocumentKey(namespace, id) == <<"se_document", namespace, id>>

\* "namespace" where the statement names a column the table does not have
NamespaceLiteral == <<"n", "a", "m", "e", "s", "p", "a", "c", "e">>

\* SELECT * FROM se_documents WHERE id = ? AND namespace = ?, fetch_one
select_document(rows, id, namespace) ==
  LET at == {i \in 1..Len(rows) : rows[i].id = id /\ rows[i].namespace = namespace}
  IN IF at = {} THEN None ELSE Some(rows[Min(at)])

\* DELETE FROM se_documents WHERE id = ? AND namespace = ?
delete_documents(rows, id, namespace) ==
  SelectSeq(rows, LAMBDA r : ~(r.id = id /\ r.namespace = namespace))

\* res.get(column) on the row as textify_row gives it: a map from the names
\* of the columns to their values
row_get(row, column) == IF column \in DOMAIN row THEN Some(row[column]) ELSE None

\* Option::unwrap on None: the call panics and returns nothing
Panic == [ok |-> FALSE, kind |-> "panic", value |-> None]

\* what drop and update do when their pull(id, namespace) call returns res,
\* and what pull returns; cache is the cache as the call left it
doc_resume(p, res, cache) ==
  /\ cachedb' = cache
  /\ UNCHANGED <<se_documents, se_pastes>>
  /\ IF local[p].op = "pull" \/ ~res.ok
     THEN Return(p, res, local[p])
     ELSE IF local[p].op = "drop"
     THEN Goto(p, "drop_delete", local[p])
     ELSE Goto(p, "update_statement", local[p])

\* a call of pull, drop or update: with the document store off it is Other
doc_call(p, op, id, namespace, new_content) ==
  /\ LET l == [NoLocals EXCEPT !.op = op, !.req.id = id, !.req.namespace = namespace,
                               !.req.content = new_content]
     IN IF document_store = FALSE
        THEN /\ pc[p] = "idle"
             /\ Return(p, Err("Other"), l)
        ELSE Call(p, "doc_cache", l)
  /\ UNCHANGED <<db_type, view_mode, document_store, se_documents, se_pastes, se_views,
                 cachedb, clock>>

\* pull(id, namespace)
pull(p, id, namespace) == doc_call(p, "pull", id, namespace, <<>>)

\* drop(id, namespace)
drop(p, id, namespace) == doc_call(p, "drop", id, namespace, <<>>)

\* update(id, namespace, new_content)
update(p, id, namespace, new_content) == doc_call(p, "update", id, namespace, new_content)

\* cachedb.get("se_document:id"): a hit is the document
doc_cache(p) ==
  /\ pc[p] = "doc_cache"
  /\ LET hit == cache_get(cachedb, DocumentIdKey(local[p].req.id)) IN
     IF IsSome(hit)
     THEN doc_resume(p, Ok(Unwrap(hit)), cachedb)
     ELSE /\ Goto(p, "doc_store", local[p])
          /\ UNCHANGED <<se_documents, se_pastes, cachedb>>
  /\ UNCHANGED <<db_type, view_mode, document_store, se_views, clock>>

\* the SELECT: no row is NotFound; of a row the document is built from the
\* columns id, namespace, content, date_published and metadata, each unwrapped
doc_store(p) ==
  /\ pc[p] = "doc_store"
  /\ LET row == select_document(se_documents, local[p].req.id, local[p].req.namespace) IN
     IF row = None
     THEN doc_resume(p, Err("NotFound"), cachedb)
     ELSE LET res == Unwrap(row)
              columns == <<"id", "namespace", "content", "date_published", "metadata">>
          IN /\ UNCHANGED <<se_documents, se_pastes, cachedb>>
             /\ IF \E k \in 1..Len(columns) : row_get(res, columns[k]) = None
                THEN Return(p, Panic, local[p])
                ELSE Goto(p, "doc_set",
                          [local[p] EXCEPT !.doc =
                             Some([id |-> res.id, namespace |-> res.namespace,
                                   content |-> res.content,
                                   timestamp |-> Unwrap(row_get(res, "date_published")),
                                   metadata |-> res.metadata])])
  /\ UNCHANGED <<db_type, view_mode, document_store, se_views, clock>>

\* cachedb.set("se_document:namespace:id", doc), and the document is the result
doc_set(p) ==
  /\ pc[p] = "doc_set"
  /\ LET doc == Unwrap(local[p].doc) IN
     doc_resume(p, Ok(doc), cache_set(cachedb, DocumentKey(doc.namespace, doc.id), doc))
  /\ UNCHANGED <<db_type, view_mode, document_store, se_views, clock>>

\* push(props): the document gets a random id and the time
push(p, props) ==
  /\ Len(se_documents) + Cardinality(InFlight("push")) < MaxDocs
  /\ \E id \in RandomIds :
       LET doc == [id |-> id, namespace |-> props.namespace, content |-> props.content,
                   timestamp |-> clock, metadata |-> props.metadata]
           l == [NoLocals EXCEPT !.op = "push", !.req.namespace = props.namespace,
                                 !.req.content = props.content, !.doc = Some(doc)]
       IN IF document_store = FALSE
          THEN /\ pc[p] = "idle"
               /\ Return(p, Err("Other"), [l EXCEPT !.doc = None])
          ELSE Call(p, "push_insert", l)
  /\ UNCHANGED <<db_type, view_mode, document_store, se_documents, se_pastes, se_views,
                 cachedb, clock>>

\* INSERT INTO se_documents, and the document is returned
push_insert(p) ==
  /\ pc[p] = "push_insert"
  /\ IF runs_dollar_statements(db_type)
     THEN /\ se_documents' = se_documents
          /\ Return(p, Err("Other"), local[p])
     ELSE /\ se_documents' = Append(se_documents, Unwrap(local[p].doc))
          /\ Return(p, Ok(Unwrap(local[p].doc)), local[p])
  /\ UNCHANGED <<db_type, view_mode, document_store, se_pastes, se_views, cachedb, clock>>

\* drop's DELETE FROM se_documents WHERE id = ? AND namespace = ?
drop_delete(p) ==
  /\ pc[p] = "drop_delete"
  /\ se_documents' = delete_documents(se_documents, local[p].req.id, local[p].req.namespace)
  /\ Goto(p, "drop_cache_key", local[p])
  /\ UNCHANGED <<db_type, view_mode, document_store, se_pastes, se_views, cachedb, clock>>

\* drop's cachedb.remove("se_document:namespace:id")
drop_cache_key(p) ==
  /\ pc[p] = "drop_cache_key"
  /\ cachedb' = cache_remove(cachedb, DocumentKey(local[p].req.namespace, local[p].req.id))
  /\ Return(p, Ok(None), local[p])
  /\ UNCHANGED <<db_type, view_mode, document_store, se_documents, se_pastes, se_views, clock>>

\* update's UPDATE se_pastes SET content = ? WHERE url = ? AND namespace = ?:
\* se_pastes has no column namespace. The database refuses the statement, or
\* (a sqlite that reads a double-quoted name it cannot resolve as a string)
\* runs it with the text "namespace" in the column's place
update_statement(p) ==
  /\ pc[p] = "update_statement"
  /\ \/ /\ se_pastes' = se_pastes
        /\ Return(p, Err("Other"), local[p])
     \/ /\ db_type = "sqlite"
        /\ se_pastes' =
             [i \in 1..Len(se_pastes) |->
                IF /\ se_pastes[i].url = local[p].req.id
                   /\ NamespaceLiteral = local[p].req.namespace
                THEN [se_pastes[i] EXCEPT !.content = local[p].req.content]
                ELSE se_pastes[i]]
        /\ Goto(p, "update_cache_key", local[p])
  /\ UNCHANGED <<db_type, view_mode, document_store, se_documents, se_views, cachedb, clock>>

\* update's cachedb.remove("se_document:namespace:id")
update_cache_key(p) ==
  /\ pc[p] = "update_cache_key"
  /\ cachedb' = cache_remove(cachedb, DocumentKey(local[p].req.namespace, local[p].req.id))
  /\ Return(p, Ok(None), local[p])
  /\ UNCHANGED <<db_type, view_mode, document_store, se_documents, se_pastes, se_views, clock>>

\* the steps of the document handlers that a call reaches: pull returns no
\* document (a cached one is read under a key nothing writes, a stored one is
\* built from a column the table does not have), so no call goes on to
\* doc_set, drop_delete, drop_cache_key, update_statement or update_cache_key
DocSteps(p) == doc_cache(p) \/ doc_store(p) \/ push_insert(p)

\* time passes
Tick ==
  /\ clock < MaxClock
  /\ clock' = clock + 1
  /\ UNCHANGED <<db_type, view_mode, document_store, se_documents, se_pastes, se_views, cachedb, pc, local, ret>>

\* the cache loses the keys in keys between two calls (an eviction, or a
\* restart of the cache)
cache_evict(keys) ==
  /\ keys # {}
  /\ keys \subseteq DOMAIN cachedb
  /\ \A p \in Procs : pc[p] = "idle"
  /\ cachedb' = [k \in (DOMAIN cachedb) \ keys |-> cachedb[k]]
  /\ UNCHANGED <<db_type, view_mode, document_store, se_documents, se_pastes, se_views, clock, pc, local, ret>>

\* the steps of the view counter at its await points
ViewSteps(p) ==
  \/ views_cache(p) \/ views_count(p) \/ views_set(p)
  \/ incr_has_viewed(p) \/ incr_insert(p) \/ incr_cache(p)

\* the document store is off, as in ServerOptions::default(): the handlers of
\* pastes and views never read the option
Init ==
  /\ db_type \in DbTypes
  /\ view_mode \in ViewModes
  /\ document_store = FALSE
  /\ se_documents = <<>>
  /\ se_pastes = <<>>
  /\ se_views = <<>>
  /\ cachedb = <<>>
  /\ clock = 0
  /\ pc = [p \in Procs |-> "idle"]
  /\ local = [p \in Procs |-> NoLocals]
  /\ ret = [p \in Procs |-> NoReturn]

(***************************************************************************)
(* What the clients send.                                                  *)
(***************************************************************************)
SlugA == <<"a", "b", "c">>
SlugAUpper == <<"A", "B", "C">>
SlugB == <<"x", "y", "z">>
SlugShort == <<"a", "b">>
SlugSlash == <<"a", "/", "c">>
SlugLongest == Rep("a", 250)
SlugTooLong == Rep("a", 251)
Pw1 == <<"p">>
Pw2 == <<"q">>
Content1 == Text("c", 1)
Content2 == Text("d", 2)
ContentLongest == Text("c", 200000)
ContentTooLong == Text("c", 200001)

Alice == [username |-> "alice", permissions |-> {}]
Bob == [username |-> "bob", permissions |-> {}]
Admin == [username |-> "root", permissions |-> {"ManagePastes"}]

\* the handler of a sequential run
Solo == Min(Procs)

(***************************************************************************)
(* SpecCreateRace: create_paste calls run concurrently, interleaved at     *)
(* their await points.                                                     *)
(***************************************************************************)
CreateSteps(p) == get_cache(p) \/ get_store(p) \/ get_set(p) \/ create_insert(p)

NextCreateRace ==
  \E p \in Procs :
    \/ \E url \in {SlugA, SlugAUpper}, password \in {Pw1, Pw2} :
         create_paste(p, [url |-> url, content |-> Content1, password |-> password])
    \/ CreateSteps(p)

SpecCreateRace == Init /\ [][NextCreateRace]_vars

(***************************************************************************)
(* SpecCreate: one handler at a time creates and reads pastes;             *)
(* the slugs, contents and passwords of the create calls cover the limits  *)
(* of the validation.                                                      *)
(***************************************************************************)
CreateSlugs == {<<>>, SlugShort, SlugSlash, SlugLongest, SlugTooLong}
CreateContents == {<<>>, Content1, ContentLongest, ContentTooLong}

\* every content at a short slug without a password, every other slug with a
\* short content and a password, and the short slug in capitals
CreateRequests ==
  {[url |-> SlugA, content |-> content, password |-> <<>>] : content \in CreateContents}
    \cup {[url |-> url, content |-> Content1, password |-> Pw1] : url \in CreateSlugs}
    \cup {[url |-> SlugAUpper, content |-> Content1, password |-> Pw1],
          [url |-> SlugAUpper, content |-> ContentTooLong, password |-> <<>>]}

NextCreate ==
  \/ \E props \in CreateRequests : create_paste(Solo, props)
  \/ \E url \in {SlugA} : get_paste_by_url(Solo, url)
  \/ CreateSteps(Solo)

SpecCreate == Init /\ [][NextCreate]_vars

(***************************************************************************)
(* SpecSeq: one handler at a time creates, reads, counts the views of,     *)
(* edits and deletes pastes, with right and wrong passwords and as         *)
(* different users.                                                        *)
(***************************************************************************)
DeleteSteps(p) ==
  \/ delete_views_key(p) \/ delete_row(p) \/ delete_cache_key(p) \/ delete_view_logs(p)

EditSteps(p) ==
  \/ edit_update(p) \/ edit_cache_key(p)
  \/ metadata_update(p) \/ metadata_cache_key(p)

Users == {None, Some(Alice), Some(Bob), Some(Admin)}

\* edit_paste_by_url calls: <<url, password, new_content, new_url, editing_as>>
EditRequests ==
  {<<SlugA, Pw1, Content2, <<>>, None>>,
   <<SlugA, Pw1, <<>>, <<>>, None>>,
   <<SlugA, Pw1, Content2, SlugSlash, None>>,
   <<SlugB, Pw1, Content2, <<>>, None>>}
    \cup {<<SlugA, Pw2, Content2, <<>>, user>> : user \in Users}

OwnedByAlice == [DefaultMetadata EXCEPT !.owner = "alice"]

\* edit_paste_metadata_by_url calls: <<url, password, editing_as>>
MetadataRequests ==
  {<<SlugA, Pw1, None>>, <<SlugB, Pw1, None>>}
    \cup {<<SlugA, Pw2, user>> : user \in Users}

NextSeq ==
  \/ create_paste(Solo, [url |-> SlugA, content |-> Content1, password |-> Pw1])
  \/ \E url \in {SlugA, SlugAUpper} : get_paste_by_url(Solo, url)
  \/ \E password \in {Pw1, Pw2} : delete_paste_by_url(Solo, SlugA, password)
  \/ \E e \in EditRequests :
       edit_paste_by_url(Solo, e[1], e[2], e[3], e[4], <<>>, e[5])
  \/ \E m \in MetadataRequests :
       edit_paste_metadata_by_url(Solo, m[1], m[2], OwnedByAlice, m[3])
  \/ \E as_user \in {None, Some(Alice), Some(Bob)} : incr_views_by_url(Solo, SlugA, as_user)
  \/ get_views_by_url(Solo, SlugA)
  \/ CreateSteps(Solo) \/ DeleteSteps(Solo) \/ EditSteps(Solo) \/ ViewSteps(Solo)

SpecSeq == Init /\ [][NextSeq]_vars

(***************************************************************************)
(* SpecRace: a paste is created, and read, edit and delete calls on its    *)
(* slug run concurrently, interleaved at their await points; an edit may   *)
(* change the password. A create call runs alone.                          *)
(***************************************************************************)
NextRace ==
  \E p \in Procs :
    \/ /\ \A q \in Procs : pc[q] = "idle"
       /\ create_paste(p, [url |-> SlugA, content |-> Content1, password |-> Pw1])
    \/ /\ InFlight("create") = {}
       /\ \/ get_paste_by_url(p, SlugA)
          \/ \E password \in {Pw1, Pw2} :
               edit_paste_by_url(p, SlugA, password, Content2, <<>>, Pw2, None)
          \/ delete_paste_by_url(p, SlugA, Pw1)
    \/ CreateSteps(p) \/ DeleteSteps(p) \/ edit_update(p) \/ edit_cache_key(p)

SpecRace == Init /\ [][NextRace]_vars

(***************************************************************************)
(* SpecRename: one handler at a time creates, reads, edits and deletes     *)
(* pastes at two slugs; an edit may move the paste to the other slug,      *)
(* written in small letters or in capitals, or change its password, and    *)
(* the cache may lose keys between calls.                                  *)
(***************************************************************************)
NextRename ==
  \/ \E url \in {SlugA, SlugB} :
       create_paste(Solo, [url |-> url, content |-> Content1, password |-> Pw1])
  \/ \E url \in {SlugA, SlugB} : get_paste_by_url(Solo, url)
  \/ \E new_url \in {<<>>, SlugA, SlugAUpper}, new_password \in {<<>>, Pw2} :
       edit_paste_by_url(Solo, SlugB, Pw1, Content2, new_url, new_password, None)
  \/ edit_paste_metadata_by_url(Solo, SlugB, Pw1, OwnedByAlice, None)
  \/ delete_paste_by_url(Solo, SlugA, Pw1)
  \/ \E keys \in SUBSET DOMAIN cachedb : cache_evict(keys)
  \/ CreateSteps(Solo) \/ DeleteSteps(Solo) \/ EditSteps(Solo)

SpecRename == Init /\ [][NextRename]_vars

(***************************************************************************)
(* SpecViews: one caller counts views and reads the counts, one call after *)
(* the other; the cache keeps its keys.                                    *)
(***************************************************************************)
\* the slugs viewed
ViewSlugs == {SlugA, SlugAUpper, SlugB}

\* the viewers: nobody, alice, bob
Viewers == {None, Some(Alice), Some(Bob)}

NextViews ==
  \/ \E url \in ViewSlugs, as_user \in Viewers : incr_views_by_url(Solo, url, as_user)
  \/ \E url \in ViewSlugs : get_views_by_url(Solo, url)
  \/ ViewSteps(Solo)

SpecViews == Init /\ [][NextViews]_vars

(***************************************************************************)
(* SpecViewsEvict: one caller creates a paste, counts views and reads the  *)
(* counts, one call after the other, and the cache loses keys between the  *)
(* calls.                                                                  *)
(***************************************************************************)
NextViewsEvict ==
  \/ create_paste(Solo, [url |-> SlugA, content |-> Content1, password |-> Pw1])
  \/ \E url \in {SlugA, SlugB}, as_user \in Viewers : incr_views_by_url(Solo, url, as_user)
  \/ \E url \in {SlugA, SlugB} : get_views_by_url(Solo, url)
  \/ \E keys \in SUBSET DOMAIN cachedb : cache_evict(keys)
  \/ CreateSteps(Solo) \/ ViewSteps(Solo)

SpecViewsEvict == Init /\ [][NextViewsEvict]_vars

(***************************************************************************)
(* SpecViewRace: views of one paste are counted and read while the paste   *)
(* is deleted, the calls interleaved at their await points. A create runs  *)
(* alone.                                                                  *)
(***************************************************************************)
NextViewRace ==
  \E p \in Procs :
    \/ /\ \A q \in Procs : pc[q] = "idle"
       /\ create_paste(p, [url |-> SlugA, content |-> Content1, password |-> Pw1])
    \/ /\ InFlight("create") = {}
       /\ \/ \E as_user \in {None, Some(Alice)} : incr_views_by_url(p, SlugA, as_user)
          \/ get_views_by_url(p, SlugA)
          \/ delete_paste_by_url(p, SlugA, Pw1)
    \/ CreateSteps(p) \/ DeleteSteps(p) \/ ViewSteps(p)

SpecViewRace == Init /\ [][NextViewRace]_vars

(***************************************************************************)
(* SpecNormalize: one caller creates a paste and reads slugs of every      *)
(* spelling up to MaxSlugLen characters: upper and lower case, hyphens,    *)
(* a non-ASCII letter.                                                     *)
(***************************************************************************)
\* the characters of the slugs read
NormAlphabet == {"a", "A", "-", "U+00FC"}

\* the slugs read
NormSlugs == UNION {[1..n -> NormAlphabet] : n \in 0..MaxSlugLen}

\* the slug of the paste created
SlugUmlaut == <<"A", "a", "U+00FC">>

NextNormalize ==
  \/ create_paste(Solo, [url |-> SlugUmlaut, content |-> Content1, password |-> Pw1])
  \/ \E url \in NormSlugs : get_paste_by_url(Solo, url)
  \/ CreateSteps(Solo)

SpecNormalize == Init /\ [][NextNormalize]_vars

(***************************************************************************)
(* SpecClock: one caller creates, reads, edits and deletes a paste while   *)
(* the clock ticks, or does not, between any two steps.                    *)
(***************************************************************************)
NextClock ==
  \/ create_paste(Solo, [url |-> SlugA, content |-> Content1, password |-> Pw1])
  \/ get_paste_by_url(Solo, SlugA)
  \/ \E new_password \in {<<>>, Pw2} :
       edit_paste_by_url(Solo, SlugA, Pw1, Content2, <<>>, new_password, None)
  \/ delete_paste_by_url(Solo, SlugA, Pw1)
  \/ Tick
  \/ CreateSteps(Solo) \/ DeleteSteps(Solo) \/ edit_update(Solo) \/ edit_cache_key(Solo)

SpecClock == Init /\ [][NextClock]_vars

(***************************************************************************)
(* SpecEditRace: edits of one paste, with and without a new password, run  *)
(* concurrently, interleaved at their await points. A create runs alone.   *)
(***************************************************************************)
NextEditRace ==
  \E p \in Procs :
    \/ /\ \A q \in Procs : pc[q] = "idle"
       /\ create_paste(p, [url |-> SlugA, content |-> Content1, password |-> Pw1])
    \/ /\ InFlight("create") = {}
       /\ \E new_content \in {Content1, Content2}, new_password \in {<<>>, Pw2} :
            edit_paste_by_url(p, SlugA, Pw1, new_content, <<>>, new_password, None)
    \/ CreateSteps(p) \/ edit_update(p) \/ edit_cache_key(p)

SpecEditRace == Init /\ [][NextEditRace]_vars

(***************************************************************************)
(* SpecDocuments: one caller pushes, pulls, updates and drops documents of *)
(* two namespaces, with the document store on or off, next to a paste.     *)
(***************************************************************************)
\* Init with options.document_store either way
InitDocuments ==
  /\ db_type \in DbTypes
  /\ view_mode \in ViewModes
  /\ document_store \in BOOLEAN
  /\ se_documents = <<>>
  /\ se_pastes = <<>>
  /\ se_views = <<>>
  /\ cachedb = <<>>
  /\ clock = 0
  /\ pc = [p \in Procs |-> "idle"]
  /\ local = [p \in Procs |-> NoLocals]
  /\ ret = [p \in Procs |-> NoReturn]

DocNamespaces == {<<"n", "s">>, NamespaceLiteral}
DocContents == {Content1, Content2}
\* DocumentCreate: its metadata is of the caller's type M
DocProps == [namespace : DocNamespaces, content : DocContents, metadata : {"m1", "m2"}]

NextDocuments ==
  \/ \E props \in DocProps : push(Solo, props)
  \/ \E id \in RandomIds, namespace \in DocNamespaces : pull(Solo, id, namespace)
  \/ \E id \in RandomIds, namespace \in DocNamespaces : drop(Solo, id, namespace)
  \/ \E id \in RandomIds, namespace \in DocNamespaces, new_content \in DocContents :
       update(Solo, id, namespace, new_content)
  \/ DocSteps(Solo)
  \/ create_paste(Solo, [url |-> SlugA, content |-> Content1, password |-> Pw1])
  \/ CreateSteps(Solo)

SpecDocuments == InitDocuments /\ [][NextDocuments]_vars

(***************************************************************************)
(* SpecSlugLines: one caller creates and reads pastes whose slugs hold     *)
(* line feeds, with allowed and disallowed characters on their lines.      *)
(***************************************************************************)
\* "abc" LF "a/c": the first line is allowed, the second is not
SlugGoodBad == SlugA \o <<"LF">> \o SlugSlash

\* "a/c" LF "abc": the first line is not allowed, the second is
SlugBadGood == SlugSlash \o <<"LF">> \o SlugA

\* "abc" LF "xyz": both lines are allowed
SlugGoodGood == SlugA \o <<"LF">> \o SlugB

\* "a/c" LF "a c": no line is allowed
SlugBadBad == SlugSlash \o <<"LF">> \o <<"a", " ", "c">>

LineSlugs == {SlugA, SlugSlash, SlugGoodBad, SlugBadGood, SlugGoodGood, SlugBadBad}

NextSlugLines ==
  \/ \E url \in LineSlugs :
       create_paste(Solo, [url |-> url, content |-> Content1, password |-> Pw1])
  \/ \E url \in LineSlugs : get_paste_by_url(Solo, url)
  \/ CreateSteps(Solo)

SpecSlugLines == Init /\ [][NextSlugLines]_vars

(***************************************************************************)
(* The properties.                                                         *)
(***************************************************************************)
\* the steps of get_paste_by_url inside a handler
GetPhase == {"get_cache", "get_store", "get_set"}

\* handler p takes a step
Steps(p) == pc'[p] # pc[p]

\* handler p returns from a call of handler op in this step
Returns(p, op) == pc[p] # "idle" /\ pc'[p] = "idle" /\ local[p].op = op

\* handler p is back from a call of handler op
Returned(p, op) == pc[p] = "idle" /\ local[p].op = op /\ ret[p].kind # "none"

\* C1: whatever the interleaving of concurrent create calls, no two rows of
\* the store have the same url (SpecCreateRace refutes it: two creates of one
\* new slug both pass the existence check and both insert)
C1_UniqueUrls ==
  \A i, j \in 1..Len(se_pastes) : se_pastes[i].url = se_pastes[j].url => i = j

\* C2: a create call with a non-empty slug whose normalized url a stored paste
\* has returns AlreadyExists whatever its content and password are, and no step
\* of it inserts or changes a row
C2_ExistingIsAlreadyExists ==
  [][\A p \in Procs :
       ( /\ Steps(p)
         /\ pc[p] \in GetPhase
         /\ local[p].op = "create"
         /\ local[p].req.url # <<>>
         /\ IsSome(select_paste(se_pastes, normalize_url(local[p].req.url))) )
       => /\ se_pastes' = se_pastes
          /\ pc'[p] \in GetPhase \cup {"idle"}
          /\ pc'[p] = "idle" => ret'[p] = Err("AlreadyExists")]_vars

\* create("ABC", 200001 characters, "") came back AlreadyExists: "abc" is stored
C2_Witness ==
  /\ Returned(Solo, "create")
  /\ ret[Solo] = Err("AlreadyExists")
  /\ local[Solo].req.url = SlugAUpper
  /\ content_len(local[Solo].req.content) = 200001
  /\ local[Solo].req.password = <<>>
  /\ IsSome(select_paste(se_pastes, SlugA))

\* the view-count state of url: its counter in the cache and its view rows
view_state(cache, views, url) ==
  <<cache_get(cache, ViewsKey(url)), SelectSeq(views, LAMBDA r : r.url = url)>>

\* C3: when a delete call succeeds, a read of its slug finds nothing, in the
\* cache or in the store; a slug where a read finds nothing stays so until a
\* create call inserts a row; and while it is so, the read, edit, edit_metadata
\* and delete calls on the slug return NotFound
C3_DeletedIsNotFound ==
  [][/\ \A p \in Procs :
          /\ (Returns(p, "delete") /\ ret'[p].ok)
             => read_result(local[p].url)' = Err("NotFound")
          /\ ( /\ Steps(p)
               /\ pc[p] \in GetPhase
               /\ local[p].op \in {"read", "edit", "metadata", "delete"}
               /\ read_result(local[p].url) = Err("NotFound") )
             => /\ pc'[p] \in GetPhase \cup {"idle"}
                /\ pc'[p] = "idle" => ret'[p] = Err("NotFound")
    /\ \A url \in {SlugA, SlugB} :
         (read_result(url) = Err("NotFound") /\ read_result(url)' # Err("NotFound"))
         => \E p \in Procs :
              /\ Steps(p)
              /\ pc[p] = "create_insert"
              /\ local[p].url = url]_vars

\* delete("abc", "p") came back Ok, and no paste is left at "abc"
C3_Witness ==
  /\ Returned(Solo, "delete")
  /\ ret[Solo].ok
  /\ local[Solo].url = SlugA
  /\ read_result(SlugA) = Err("NotFound")

\* C4: a delete call with a password whose hash is not the stored one returns
\* PasswordIncorrect, and no step of it changes a row of the store, the view
\* counter or the view rows of the slug, or what a read of the slug returns
C4_WrongPasswordDeletesNothing ==
  [][\A p \in Procs :
       LET url == local[p].url
           stored == read_result(url)
       IN ( /\ Steps(p)
            /\ pc[p] \in GetPhase
            /\ local[p].op = "delete"
            /\ stored.ok
            /\ stored.value.password # hash(local[p].req.password) )
          => /\ pc'[p] \in GetPhase \cup {"idle"}
             /\ pc'[p] = "idle" => ret'[p] = Err("PasswordIncorrect")
             /\ se_pastes' = se_pastes
             /\ se_views' = se_views
             /\ view_state(cachedb', se_views', url) = view_state(cachedb, se_views, url)
             /\ read_result(url)' = stored]_vars

\* delete("abc", "q") came back PasswordIncorrect on a paste that has a view
\* counter and a view row
C4_Witness ==
  /\ Returned(Solo, "delete")
  /\ ret[Solo] = Err("PasswordIncorrect")
  /\ read_result(SlugA).ok
  /\ IsSome(cache_get(cachedb, ViewsKey(SlugA)))
  /\ has_view(se_views, SlugA, "alice")

\* C5: when an edit call that keeps the url returns, it has succeeded and a
\* read of its slug returns the new content, from the store: the cached paste
\* is gone
C5_ReadReturnsEdit ==
  [][\A p \in Procs :
       (Returns(p, "edit") /\ pc[p] = "edit_cache_key" /\ local[p].req.new_url = <<>>)
       => /\ ret'[p].ok
          /\ read_result(local[p].url)'.ok
          /\ read_result(local[p].url)'.value.content = local[p].req.content]_vars

\* edit("abc", "p", "dd", "", "", None) came back Ok and a read returns "dd"
C5_Witness ==
  /\ Returned(Solo, "edit")
  /\ ret[Solo].ok
  /\ local[Solo].req.password = Pw1
  /\ local[Solo].req.user = None
  /\ local[Solo].req.content = Content2
  /\ local[Solo].req.new_url = <<>>
  /\ Unwrap(local[Solo].paste).content = Content1
  /\ read_result(SlugA) = Ok([Unwrap(local[Solo].paste) EXCEPT !.content = Content2])

\* C6: an edit or edit_metadata call on a stored paste with a password whose
\* hash is not the stored one succeeds exactly when it has a requester whose
\* username is the stored owner or who holds ManagePastes; otherwise it
\* returns PasswordIncorrect
C6_WrongPasswordGate ==
  \A p \in Procs :
    ( /\ Returned(p, "edit") \/ Returned(p, "metadata")
      /\ IsSome(local[p].paste)
      /\ Unwrap(local[p].paste).password # hash(local[p].req.password) )
    => LET requester == local[p].req.user
           owner == Unwrap(local[p].paste).metadata.owner
       IN IF /\ requester # None
             /\ \/ Unwrap(requester).username = owner
                \/ "ManagePastes" \in Unwrap(requester).permissions
          THEN ret[p].ok
          ELSE ret[p] = Err("PasswordIncorrect")

\* edit("abc", "q", ...) as root, who holds ManagePastes and does not own the
\* paste, came back Ok
C6_Witness ==
  /\ Returned(Solo, "edit")
  /\ ret[Solo].ok
  /\ local[Solo].req.password = Pw2
  /\ local[Solo].req.user = Some(Admin)
  /\ Unwrap(local[Solo].paste).password = hash(Pw1)
  /\ Unwrap(local[Solo].paste).metadata.owner = "alice"

\* C7: an edit or edit_metadata call returns PasswordIncorrect or NotFound
\* only from its read of the paste, and no step of a call up to there changes
\* a row of the store, a view row or a view counter
C7_RefusedEditWritesNothing ==
  [][\A p \in Procs :
       /\ ( /\ Steps(p)
            /\ pc[p] \in GetPhase \cup {"idle"}
            /\ local'[p].op \in {"edit", "metadata"} )
          => /\ se_pastes' = se_pastes
             /\ se_views' = se_views
             /\ \A url \in {SlugA, SlugB} :
                  view_state(cachedb', se_views', url) = view_state(cachedb, se_views, url)
       /\ ( /\ Returns(p, "edit") \/ Returns(p, "metadata")
            /\ ret'[p].kind \in {"PasswordIncorrect", "NotFound"} )
          => pc[p] \in GetPhase]_vars

\* edit_metadata("abc", "q", ...) as bob came back PasswordIncorrect on a paste
\* that has a view counter
C7_Witness ==
  /\ Returned(Solo, "metadata")
  /\ ret[Solo] = Err("PasswordIncorrect")
  /\ local[Solo].req.user = Some(Bob)
  /\ IsSome(cache_get(cachedb, ViewsKey(SlugA)))
  /\ se_pastes # <<>>

\* C8: every row of the store has a content of 1 to 200000 characters and a
\* url of 3 to 250 allowed characters (SpecSeq refutes it: edit_paste_by_url
\* writes new_content and new_url as they come)
C8_StoredPastesValid ==
  \A i \in 1..Len(se_pastes) :
    /\ content_len(se_pastes[i].content) \in 1..200000
    /\ Len(se_pastes[i].url) \in 3..250
    /\ \A k \in 1..Len(se_pastes[i].url) : se_pastes[i].url[k] \in AllowedChars

\* C9: a create call on a free slug returns ValueError and inserts no row when
\* its content has 0 or 200001 characters or its slug (as normalized, or as
\* generated for an empty one) has fewer than 3 or more than 250; with 1 to
\* 200000 characters of content and 3 to 250 allowed characters of slug it
\* inserts the paste and succeeds (SpecCreate refutes the last part: where
\* the handler runs its "$n" statements the INSERT reads VALEUS, and the call
\* returns Other)
C9_CreateValidates ==
  [][\A p \in Procs :
       /\ ( /\ Steps(p)
            /\ pc[p] = "get_store"
            /\ local[p].op = "create"
            /\ read_result(local[p].url) = Err("NotFound") )
          => LET c == content_len(local[p].req.content)
                 slug == local'[p].url
             IN /\ (c = 0 \/ c = 200001 \/ Len(slug) < 3 \/ Len(slug) > 250)
                   => /\ pc'[p] = "idle"
                      /\ ret'[p] = Err("ValueError")
                      /\ se_pastes' = se_pastes
                /\ ( /\ c \in 1..200000
                     /\ Len(slug) \in 3..250
                     /\ \A i \in 1..Len(slug) : slug[i] \in AllowedChars )
                   => pc'[p] = "create_insert"
       /\ (Steps(p) /\ pc[p] = "create_insert")
          => /\ pc'[p] = "idle"
             /\ ret'[p].ok
             /\ ret'[p].value.paste.url = local[p].url
             /\ ret'[p].value.paste.content = local[p].req.content
             /\ se_pastes' = Append(se_pastes, ret'[p].value.paste)]_vars

\* C10: a create call with a non-empty slug that succeeds returns a non-empty
\* plaintext password, the supplied one when that is non-empty and one of 10
\* characters when it is empty, and the row read back at the slug stores its
\* hash: the password checks of delete and of edit without a requester pass
C10_ReturnedPasswordOpens ==
  \A p \in Procs :
    (Returned(p, "create") /\ ret[p].ok /\ local[p].req.url # <<>>)
    => LET plaintext == ret[p].value.password
           supplied == local[p].req.password
           stored == read_result(normalize_url(local[p].req.url))
       IN /\ plaintext # <<>>
          /\ supplied # <<>> => plaintext = supplied
          /\ supplied = <<>> => Len(plaintext) = 10
          /\ stored.ok
          /\ stored.value.password = hash(plaintext)
          /\ password_gate(None, plaintext, stored.value)

\* create("abc", 200000 characters, "") came back with a generated password
C10_Witness ==
  /\ Returned(Solo, "create")
  /\ ret[Solo].ok
  /\ local[Solo].req.url = SlugA
  /\ local[Solo].req.password = <<>>
  /\ content_len(local[Solo].req.content) = 200000
  /\ Len(ret[Solo].value.password) = 10

\* the pastes the cache holds
cached_pastes == {cachedb[k] : k \in {c \in DOMAIN cachedb : c[1] = "se_paste"}}

\* C11: the password of every row of the store and of every cached paste is
\* the hash of a plaintext, and is none of the plaintexts the clients send or
\* create_paste generates
C11_PasswordsAreHashes ==
  LET pastes == {se_pastes[i] : i \in 1..Len(se_pastes)} \cup cached_pastes
      plaintexts == {Pw1, Pw2} \cup {Take(r, 10) : r \in RandomIds}
  IN \A paste \in pastes :
       /\ paste.password # <<>>
       /\ paste.password = hash(Tail(paste.password))
       /\ paste.password \notin plaintexts

\* an edit has changed the password of a paste to "q", and the row and the
\* cached paste both hold its hash
C11_Witness ==
  /\ \E i \in 1..Len(se_pastes) : se_pastes[i].password = hash(Pw2)
  /\ \E paste \in cached_pastes : paste.password = hash(Pw2)
  /\ \E i \in 1..Len(se_pastes) : se_pastes[i].password = hash(Pw1)

\* C12: when every call has completed, a paste cached for a slug is the
\* store's row for the slug (SpecRace refutes it: a read that selected the
\* row before an edit's UPDATE sets the cache after the edit removed the key)
C12_CacheMatchesStore ==
  (\A p \in Procs : pc[p] = "idle")
  => \A url \in {SlugA} :
       LET hit == cache_get(cachedb, PasteKey(url)) IN
       IsSome(hit) => select_paste(se_pastes, url) = hit

\* C13: once the row of a slug holds the hash of "q" and every other call has
\* completed, an edit or delete call without a requester that starts on the
\* slug and finds it in the cache passes the password check with "q" and
\* returns PasswordIncorrect with any other password (SpecRace refutes it: a read that ran during the edit
\* left the paste with the old hash in the cache, and the check reads that)
C13_OldPasswordRefused ==
  [][\A p \in Procs :
       LET l == local[p]
           row == select_paste(se_pastes, l.url)
       IN ( /\ Steps(p)
            /\ pc[p] = "get_cache"
            /\ pc'[p] # "get_store"
            /\ l.op \in {"edit", "delete"}
            /\ l.req.user = None
            /\ \A q \in Procs \ {p} : pc[q] = "idle"
            /\ IsSome(row)
            /\ Unwrap(row).password = hash(Pw2) )
          => IF l.req.password = Pw2
             THEN pc'[p] # "idle"
             ELSE pc'[p] = "idle" /\ ret'[p] = Err("PasswordIncorrect")]_vars

\* what get_paste_by_url(url) returns from the store alone
store_result(url) ==
  LET row == select_paste(se_pastes, to_lowercase(url)) IN
  IF IsSome(row) THEN Ok(Unwrap(row)) ELSE Err("NotFound")

\* C14: in a sequential run in which the cache loses keys between calls, every
\* handler gets from its read of the paste what the store alone gives: a read
\* returns the row or NotFound, a create returns AlreadyExists exactly when
\* there is a row, and edit, edit_metadata and delete go on with the row or
\* return NotFound (SpecRename refutes it: an edit moves a paste to a slug
\* that has a cached paste, and the store then gives the moved row)
C14_CacheIsTransparent ==
  [][\A p \in Procs :
       LET l == local[p]
           stored == store_result(l.url)
       IN (Steps(p) /\ pc[p] \in GetPhase /\ pc'[p] \notin GetPhase)
          => CASE l.op = "read" -> ret'[p] = stored
               [] l.op = "create" ->
                    stored.ok <=> (pc'[p] = "idle" /\ ret'[p] = Err("AlreadyExists"))
               [] OTHER ->
                    IF stored.ok
                    THEN local'[p].paste = Some(stored.value)
                    ELSE pc'[p] = "idle" /\ ret'[p] = Err("NotFound")]_vars

\* C15: when an edit with a new_url returns success and the edited paste is
\* the only one at the normalised new_url, a read of the old slug returns
\* NotFound and a read of the new slug returns the paste with the new content
\* and the normalised new_url as its url (SpecRename refutes it: new_url is
\* stored as typed, and a read looks its slug up in lower case)
C15_MovedPasteIsRead ==
  [][\A p \in Procs :
       LET l == local[p]
           nb == normalize_url(l.req.new_url)
           at_nb == {i \in 1..Len(se_pastes) : to_lowercase(se_pastes[i].url) = nb}
       IN ( /\ Returns(p, "edit")
            /\ pc[p] = "edit_cache_key"
            /\ l.req.new_url # <<>>
            /\ nb # l.url
            /\ Cardinality(at_nb) = 1 )
          => /\ ret'[p].ok
             /\ read_result(l.url)' = Err("NotFound")
             /\ read_result(nb)'.ok
             /\ read_result(nb)'.value.content = l.req.content
             /\ read_result(nb)'.value.url = nb]_vars

\* handler p is back from a call of handler op at the end of this step
Done(p, op) ==
  /\ pc'[p] = "idle"
  /\ local'[p].op = op
  /\ <<pc[p], local[p], ret[p]>> # <<pc'[p], local'[p], ret'[p]>>

\* C16: in OpenMultiple mode, in a sequential run in which the cache keeps its
\* keys, every increment_view call, with or without an identity, raises the
\* count of its slug by one and changes no other count, and get_view_count
\* returns the count of its slug, 0 when the slug has no counter, and changes
\* no count: after N increment_view(s) calls get_view_count(s) returns N
C16_OpenCounterCountsCalls ==
  [][view_mode = "OpenMultiple"
     => \A p \in Procs, url \in {normalize_url(u) : u \in ViewSlugs} :
          /\ (Done(p, "incr_views") /\ local'[p].url = url)
             => /\ views_result(url)' = views_result(url) + 1
                /\ \A other \in {normalize_url(u) : u \in ViewSlugs} \ {url} :
                     views_result(other)' = views_result(other)
          /\ (Done(p, "get_views") /\ local'[p].url = url)
             => /\ ret'[p] = Ok(IF ViewsKey(url) \in DOMAIN cachedb
                                THEN cachedb[ViewsKey(url)] ELSE 0)
                /\ \A any \in {normalize_url(u) : u \in ViewSlugs} :
                     views_result(any)' = views_result(any)]_vars

\* two increment_view("abc") calls, the second one without an identity, and
\* get_view_count("ABC") has returned 2
C16_Witness ==
  /\ view_mode = "OpenMultiple"
  /\ Returned(Solo, "get_views")
  /\ local[Solo].req.url = SlugAUpper
  /\ ret[Solo] = Ok(2)
  /\ cachedb[ViewsKey(SlugA)] = 2
  /\ ViewsKey(SlugB) \notin DOMAIN cachedb

\* the usernames with a durable view row for url
viewers_of(rows, url) == {rows[i].username : i \in {j \in 1..Len(rows) : rows[j].url = url}}

\* C17: in AuthenticatedOnce mode, in a sequential run, when an
\* increment_view call with an identity returns, the identity has a durable
\* view row and the count of the slug is the number of distinct usernames
\* with a row, and get_view_count returns that count and leaves it as it is:
\* the count is the number of distinct usernames that called (SpecViews
\* refutes it: on a database that runs the "$n" statements the INSERT of the
\* row fails, and the view of the first identity is not counted)
C17_OnePerIdentity ==
  [][view_mode = "AuthenticatedOnce"
     => \A p \in Procs, url \in {normalize_url(u) : u \in ViewSlugs} :
          /\ ( /\ Done(p, "incr_views")
               /\ local'[p].url = url
               /\ IsSome(local'[p].req.user) )
             => /\ has_view(se_views', url, Unwrap(local'[p].req.user).username)
                /\ views_result(url)' = Cardinality(viewers_of(se_views', url))
          /\ (Done(p, "get_views") /\ local'[p].url = url)
             => /\ ret'[p] = Ok(views_result(url))
                /\ views_result(url)' = views_result(url)]_vars

\* C18: in AuthenticatedOnce mode, whatever the interleaving of concurrent
\* increment_view calls, a (url, username) pair has at most one durable view
\* row, and the counter of a slug is at most the number of its pairs
\* (SpecViewRace refutes it: two calls of one identity both find no row, both
\* insert one and both increment the counter)
C18_OneRowPerPair ==
  view_mode = "AuthenticatedOnce"
  => LET url == normalize_url(SlugA)
         hit == cache_get(cachedb, ViewsKey(url))
     IN /\ \A username \in viewers_of(se_views, url) :
             Len(SelectSeq(se_views, LAMBDA r : r.url = url /\ r.username = username)) <= 1
        /\ IsSome(hit) => Unwrap(hit) <= Cardinality(viewers_of(se_views, url))

\* C20: when a delete returns success and every call that ran with it has
\* returned, the view-count state of its slug is gone in both modes: the
\* cache has no counter key, the store has no view row of the slug, and
\* get_view_count returns 0 (SpecViewRace refutes it: the counter key is
\* removed first, and a view counted, or a count read, before the delete is
\* done puts it back)
C20_DeletePurgesViews ==
  [][\A p \in Procs :
       ( /\ Returns(p, "delete")
         /\ ret'[p].ok
         /\ \A q \in Procs \ {p} : pc[q] = "idle" )
       => /\ ViewsKey(local[p].url) \notin DOMAIN cachedb'
          /\ count_views(se_views', local[p].url) = 0
          /\ views_result(local[p].url)' = 0]_vars

\* C19: in AuthenticatedOnce mode, between the calls of a sequential run in
\* which the cache loses keys, what get_view_count returns for a live paste
\* is the number of the durable view rows of its slug (SpecViewsEvict refutes
\* it: after the counter key is lost, the next counted view starts the
\* counter again at 1 while the rows are two)
C19_CountIsRowCount ==
  ( /\ view_mode = "AuthenticatedOnce"
    /\ \A p \in Procs : pc[p] = "idle" )
  => \A url \in {normalize_url(u) : u \in {SlugA, SlugB}} :
       IsSome(select_paste(se_pastes, url))
       => views_result(url) = count_views(se_views, url)

\* C21: the response to a call that returned an error has the status code of
\* the error kind: 401 for PasswordIncorrect, 400 for AlreadyExists and for
\* ValueError, 404 for NotFound, 500 for Other (SpecSeq refutes it: the
\* response to PasswordIncorrect and to AlreadyExists is a 500, as is the one
\* to ValueError)
C21_ErrorStatusCodes ==
  \A p \in Procs :
    (pc[p] = "idle" /\ ~ret[p].ok)
    => response_status(p) =
         CASE ret[p].kind = "PasswordIncorrect" -> 401
           [] ret[p].kind = "AlreadyExists" -> 400
           [] ret[p].kind = "ValueError" -> 400
           [] ret[p].kind = "NotFound" -> 404
           [] ret[p].kind = "Other" -> 500

\* C22: the normalization of a slug is idempotent: for the slug x of every
\* call, normalize(normalize(x)) = normalize(x), and the url the handler
\* addresses is its own normalization, so a call addressed by normalize(x)
\* addresses the same url
C22_NormalizeIdempotent ==
  \A p \in Procs :
    local[p].op # "none"
    => LET x == local[p].req.url IN
       /\ normalize_url(normalize_url(x)) = normalize_url(x)
       /\ local[p].url # <<>> => normalize_url(local[p].url) = local[p].url

\* the paste created as "Aaü" has been read as "AAü": both are "aa-yka"
C22_Witness ==
  /\ Returned(Solo, "read")
  /\ ret[Solo].ok
  /\ local[Solo].req.url = <<"A", "A", "U+00FC">>
  /\ ret[Solo].value.url = <<"a", "a", "-", "y", "k", "a">>
  /\ ret[Solo].value.url = normalize_url(SlugUmlaut)

\* C23: when an edit returns success, the paste it edited has the id and the
\* date_published it had before, and a date_edited strictly greater than its
\* date_published (SpecClock refutes it: create and edit read the clock, and
\* an edit that reads the value the create read stores a date_edited equal to
\* date_published)
C23_EditKeepsIdAndDates ==
  [][\A p \in Procs :
       (Returns(p, "edit") /\ ret'[p].ok /\ local[p].req.new_url = <<>>)
       => LET before == Unwrap(local[p].paste)
              after == select_paste(se_pastes', local[p].url)
          IN /\ IsSome(after)
             /\ Unwrap(after).id = before.id
             /\ Unwrap(after).date_published = before.date_published
             /\ Unwrap(after).date_edited > Unwrap(after).date_published]_vars

\* C24: in a sequential run of create, edit and delete, between the calls no
\* url is the url of two rows of the store: an edit never moves a paste to
\* the url of another live paste (SpecRename refutes it: the edit does not
\* look the new url up, and the UPDATE gives the row the url of the other)
C24_EditKeepsUrlsUnique ==
  (\A p \in Procs : pc[p] = "idle")
  => \A url \in {se_pastes[i].url : i \in 1..Len(se_pastes)} :
       Len(SelectSeq(se_pastes, LAMBDA r : r.url = url)) = 1

\* C25: a create call with an empty url that generated a slug some stored
\* paste has inserts no second row with that url: after its INSERT step the
\* store has at most one row with the generated slug (SpecCreate refutes it:
\* the existence check runs on the empty url, before the slug is generated,
\* and the generated slug is inserted unchecked)
C25_GeneratedSlugIsChecked ==
  [][\A p \in Procs :
       (Steps(p) /\ pc[p] = "create_insert" /\ local[p].req.url = <<>>)
       => Len(SelectSeq(se_pastes', LAMBDA r : r.url = local[p].url)) <= 1]_vars

\* C26: an edit or edit_metadata call whose UPDATE finds no row of its url,
\* the paste having been deleted or moved since the call read it, does not
\* report success: the UPDATE step ends the call with an error (SpecRace
\* refutes it: a delete runs between the edit's read and its UPDATE, the
\* UPDATE changes no row, and the edit goes on to return Ok)
C26_LostUpdateIsReported ==
  [][\A p \in Procs :
       ( /\ Steps(p)
         /\ pc[p] \in {"edit_update", "metadata_update"}
         /\ ~runs_dollar_statements(db_type)
         /\ select_paste(se_pastes, local[p].url) = None )
       => (pc'[p] = "idle" /\ ~ret'[p].ok)]_vars

\* C27: the UPDATE of an edit call with an empty new_password leaves the
\* password of every row as it is, also when another edit changed it after
\* this call read the paste (SpecEditRace refutes it: the call writes back the
\* hash it read, over the hash the other edit stored in between)
C27_EmptyPasswordKeepsHash ==
  [][\A p \in Procs :
       (Steps(p) /\ pc[p] = "edit_update" /\ local[p].req.new_password = <<>>)
       => /\ Len(se_pastes') = Len(se_pastes)
          /\ \A i \in 1..Len(se_pastes) :
               se_pastes'[i].password = se_pastes[i].password]_vars

\* C28: in AuthenticatedOnce mode an increment_view call without an identity
\* returns success and leaves the durable view rows and the cache, the
\* counter of its slug included, as they were
C28_AnonymousViewIsDropped ==
  [][view_mode = "AuthenticatedOnce"
     => \A p \in Procs :
          (Done(p, "incr_views") /\ local'[p].req.user = None)
          => /\ ret'[p] = Ok(None)
             /\ se_views' = se_views
             /\ cachedb' = cachedb]_vars

\* alice's view of "abc" is counted, and a view of "abc" without an identity
\* has returned Ok: one row, and the counter is 1
C28_Witness ==
  /\ view_mode = "AuthenticatedOnce"
  /\ Returned(Solo, "incr_views")
  /\ local[Solo].req.user = None
  /\ local[Solo].url = SlugA
  /\ ret[Solo] = Ok(None)
  /\ count_views(se_views, SlugA) = 1
  /\ cache_get(cachedb, ViewsKey(SlugA)) = Some(1)

\* C29: every increment_view call that increments the cache counter returns
\* success, on the first view of a slug and on every later one (SpecViews
\* refutes it: the increment of a counter that exists returns true, and the
\* handler answers true with Err(Other))
C29_CountedViewReturnsOk ==
  [][\A p \in Procs, url \in {normalize_url(u) : u \in ViewSlugs} :
       ( /\ Done(p, "incr_views")
         /\ local'[p].url = url
         /\ cache_get(cachedb', ViewsKey(url)) # cache_get(cachedb, ViewsKey(url)) )
       => ret'[p] = Ok(None)]_vars

\* C30: when a create call returns success, get_view_count of the new
\* paste's slug returns 0 in both view modes, whatever was counted for the slug
\* before (SpecSeq refutes it: a view counted for the slug while no paste
\* lived there stays in the cache, and the create leaves it there)
C30_NewPasteHasNoViews ==
  [][\A p \in Procs, url \in {normalize_url(u) : u \in {SlugA, SlugB}} :
       (Returns(p, "create") /\ ret'[p].ok /\ local[p].url = url)
       => views_result(url)' = 0]_vars

\* C31: a create call for a slug no paste lives at, one line of which holds
\* a character that is not allowed, is rejected with ValueError (SpecSlugLines
\* refutes it: with multi_line the pattern matches as soon as one line of the
\* slug is made of allowed characters, and the slug is inserted)
C31_EveryLineIsChecked ==
  [][\A p \in Procs :
       LET url == local[p].url IN
       ( /\ Steps(p)
         /\ local[p].op = "create"
         /\ pc[p] \in GetPhase
         /\ pc'[p] \notin GetPhase
         /\ read_result(url) = Err("NotFound")
         /\ \E k \in 1..Len(Lines(url)) :
              \E i \in 1..Len(Lines(url)[k]) : Lines(url)[k][i] \notin AllowedChars )
       => (pc'[p] = "idle" /\ ret'[p] = Err("ValueError"))]_vars

\* C32: with the document store on, a pull(id, namespace) of a document that
\* push stored returns a document with the id, namespace, content and metadata
\* of the stored row (SpecDocuments refutes it: pull builds the document from
\* a column date_published that se_documents does not have, so the call ends
\* in a panic, and the cache entry a second pull would be served from is never
\* written; the key pull reads is not the key it writes either)
C32_PullReturnsPushed ==
  [][\A p \in Procs :
       LET row == select_document(se_documents, local[p].req.id, local[p].req.namespace) IN
       (Done(p, "pull") /\ document_store /\ row # None)
       => /\ ret'[p].ok
          /\ ret'[p].value.id = Unwrap(row).id
          /\ ret'[p].value.namespace = Unwrap(row).namespace
          /\ ret'[p].value.content = Unwrap(row).content
          /\ ret'[p].value.metadata = Unwrap(row).metadata]_vars

====
